---- MODULE Spec2Model ----
(***************************************************************************)
(* Model of the three climate-exposure pipelines                           *)
(*   calculate_extreme_precip.py, calculate_rainfall_deviation.py,         *)
(*   calculate_wet_days.py.                                                *)
(*                                                                         *)
(* Floating point numbers are modelled as exact rationals <<num, den>>     *)
(* with den > 0, plus the value NaN == <<0, 0>>.  Precipitation amounts    *)
(* of the daily series are integers (mm).  Dates are records               *)
(* [year, month, day].                                                     *)
(***************************************************************************)
EXTENDS Integers, Sequences, FiniteSets, TLC

VARIABLES
    pipeline,    \* which of the three scripts is running
    statsFile,   \* content of all_points_dhs_prep.csv (THRESHOLD_FILE / HISTORICAL_STATS_FILE)
    inputDir,    \* INPUT_DIR: file id -> input table (sequence of records)
    mainpc,      \* position of main()
    taskq,       \* Pool task queue: file ids not yet handed to a worker
    worker,      \* pool worker -> file id it is running process_file on, 0 when idle
    drv,         \* per file: locals of the process_file call (pc, idx, df, per-row locals)
    outputDir,   \* OUTPUT_DIR: file id -> table written by to_csv
    results,     \* per file: return value of process_file as collected by pool.map
    runs,        \* per file: number of process_file calls started
    success,     \* main's final success count, -1 until computed
    call,        \* arguments of a direct call of one of the core functions
    ret          \* its return value

vars == <<pipeline, statsFile, inputDir, mainpc, taskq, worker, drv, outputDir,
          results, runs, success, call, ret>>

----------------------------------------------------------------------------
(* Program constants *)

MIN_YEAR == 1981

N_MONTHS == 12

HISTORICAL_PERIOD == <<1980, 2020>>

----------------------------------------------------------------------------
(* float arithmetic: exact rationals and NaN *)

\* Python evaluates an expression once and binds its value to a name
Bind(x, Body(_)) == CHOOSE r \in {Body(v) : v \in {x}} : TRUE

Bind2(x, y, Body(_, _)) == CHOOSE r \in {Body(p[1], p[2]) : p \in {<<x, y>>}} : TRUE

RECURSIVE GCD(_, _)
GCD(a, b) == IF b = 0 THEN a ELSE GCD(b, a % b)

Abs(n) == IF n < 0 THEN -n ELSE n

NaN == <<0, 0>>

IsNaN(x) == x[2] = 0

\* n/d in lowest terms with a positive denominator; d = 0 gives NaN
Rat(n, d) ==
    Bind2(n, d, LAMBDA x, y :
        IF y = 0 THEN NaN
        ELSE Bind(GCD(Abs(x), Abs(y)),
                  LAMBDA g : IF y < 0 THEN <<(-x) \div g, (-y) \div g>>
                             ELSE <<x \div g, y \div g>>))

FromInt(n) == <<n, 1>>

Zero == <<0, 1>>

RAdd(a, b) ==
    Bind2(a, b, LAMBDA x, y : IF IsNaN(x) \/ IsNaN(y) THEN NaN
                              ELSE Rat(x[1] * y[2] + y[1] * x[2], x[2] * y[2]))

RSub(a, b) ==
    Bind2(a, b, LAMBDA x, y : IF IsNaN(x) \/ IsNaN(y) THEN NaN
                              ELSE Rat(x[1] * y[2] - y[1] * x[2], x[2] * y[2]))

RMul(a, b) ==
    Bind2(a, b, LAMBDA x, y : IF IsNaN(x) \/ IsNaN(y) THEN NaN
                              ELSE Rat(x[1] * y[1], x[2] * y[2]))

\* the callers guard every division against a zero divisor
RDiv(a, b) ==
    Bind2(a, b, LAMBDA x, y : IF IsNaN(x) \/ IsNaN(y) THEN NaN
                              ELSE Rat(x[1] * y[2], x[2] * y[1]))

\* comparisons with NaN are false
RGt(a, b) == ~IsNaN(a) /\ ~IsNaN(b) /\ a[1] * b[2] > b[1] * a[2]

RLt(a, b) == ~IsNaN(a) /\ ~IsNaN(b) /\ a[1] * b[2] < b[1] * a[2]

REq(a, b) == ~IsNaN(a) /\ ~IsNaN(b) /\ a[1] * b[2] = b[1] * a[2]

\* the list [f[1], ..., f[n]]
ListOf(f, n) == SubSeq(f, 1, n)

\* exact square root of a non-negative integer that is a perfect square
ISqrt(n) == CHOOSE r \in 0..n : r * r = n

\* exact square root of a rational whose numerator and denominator are squares
RSqrt(x) == IF IsNaN(x) THEN NaN ELSE Rat(ISqrt(x[1]), ISqrt(x[2]))

----------------------------------------------------------------------------
(* pandas helpers *)

IsLeap(y) == (y % 4 = 0 /\ y % 100 # 0) \/ y % 400 = 0

DaysInMonth(y, m) ==
    IF m = 2 THEN (IF IsLeap(y) THEN 29 ELSE 28)
    ELSE IF m \in {4, 6, 9, 11} THEN 30 ELSE 31

Date(y, m, d) == [year |-> y, month |-> m, day |-> d]

\* (variant: 1-based month not shifted before the div/mod)
DateOffsetMonths_ModBug(date, months) ==
    LET total == date.year * 12 + date.month - months
        y == total \div 12
        m == total % 12
        d == IF m = 0 THEN date.day
             ELSE IF date.day > DaysInMonth(y, m) THEN DaysInMonth(y, m) ELSE date.day
    IN  Date(y, m, d)

\* base_date - pd.DateOffset(months=m): calendar month arithmetic, the day
\* is clipped to the length of the resulting month
DateOffsetMonths(date, months) ==
    LET total == date.year * 12 + (date.month - 1) - months
        y == total \div 12
        m == (total % 12) + 1
        d == IF date.day > DaysInMonth(y, m) THEN DaysInMonth(y, m) ELSE date.day
    IN  Date(y, m, d)

\* precip_data[(time.dt.year == year) & (time.dt.month == month)]
MonthlyRows(precip_data, year, month) ==
    SelectSeq(precip_data, LAMBDA r : r.time.year = year /\ r.time.month = month)

\* Series.sum() of the 'tp' column
RECURSIVE SumTp(_)
SumTp(rows) == IF rows = <<>> THEN 0 ELSE Head(rows).tp + SumTp(Tail(rows))

\* Series.mean(): NaN for an empty series
MeanOf(total, count) == Rat(total, count)

----------------------------------------------------------------------------
(* calculate_extreme_precip.py : calc_extreme_precip *)

\* (variant: >= threshold)
calc_extreme_precip_GeBug(target_date, precip_data, threshold, avg_precip) ==
    LET monthly == MonthlyRows(precip_data, target_date.year, target_date.month)
    IN  Bind(SelectSeq(monthly, LAMBDA r : ~RLt(FromInt(r.tp), threshold)),
             LAMBDA extreme :
               IF Len(extreme) = 0 THEN <<0, Zero, Zero>>
               ELSE Bind2(Len(extreme),
                          RSub(FromInt(SumTp(extreme)), RMul(threshold, FromInt(Len(extreme)))),
                          LAMBDA n_days, excess :
                            <<n_days, excess,
                              IF RGt(avg_precip, Zero) THEN RDiv(excess, avg_precip)
                              ELSE Zero>>))

calc_extreme_precip(target_date, precip_data, threshold, avg_precip) ==
    LET monthly == MonthlyRows(precip_data, target_date.year, target_date.month)
    IN  Bind(SelectSeq(monthly, LAMBDA r : RGt(FromInt(r.tp), threshold)),
             LAMBDA extreme :
               IF Len(extreme) = 0 THEN <<0, Zero, Zero>>
               ELSE Bind2(Len(extreme),
                          RSub(FromInt(SumTp(extreme)), RMul(threshold, FromInt(Len(extreme)))),
                          LAMBDA n_days, excess :
                            <<n_days, excess,
                              IF RGt(avg_precip, Zero) THEN RDiv(excess, avg_precip)
                              ELSE Zero>>))

----------------------------------------------------------------------------
(* calculate_wet_days.py : calc_wet_days *)

WET_DAY_THRESHOLD == FromInt(1)

\* (variant: >= threshold)
calc_wet_days_GeBug(target_date, precip_data, threshold) ==
    LET monthly == MonthlyRows(precip_data, target_date.year, target_date.month)
    IN  Len(SelectSeq(monthly, LAMBDA r : ~RLt(FromInt(r.tp), threshold)))

calc_wet_days(target_date, precip_data, threshold) ==
    LET monthly == MonthlyRows(precip_data, target_date.year, target_date.month)
    IN  Len(SelectSeq(monthly, LAMBDA r : RGt(FromInt(r.tp), threshold)))

----------------------------------------------------------------------------
(* calculate_rainfall_deviation.py : historical statistics and RSD *)

RECURSIVE SumOver(_, _)
\* sum of f[x] over a finite set S
SumOver(S, f) == IF S = {} THEN 0
                 ELSE LET x == CHOOSE y \in S : TRUE
                      IN  f[x] + SumOver(S \ {x}, f)

\* Series.std() (ddof = 1) of a collection of n integers with sum s and sum
\* of squares q: NaN below two values
StdOf(n, s, q) ==
    IF n < 2 THEN NaN ELSE RSqrt(Rat(n * q - s * s, n * (n - 1)))

calculate_historical_stats(precip_data) ==
    LET hist_data == SelectSeq(precip_data,
                        LAMBDA r : r.time.year >= HISTORICAL_PERIOD[1]
                                   /\ r.time.year <= HISTORICAL_PERIOD[2])
        \* groupby(['year', 'month'])['tp'].sum()
        groups == {<<hist_data[i].time.year, hist_data[i].time.month>> :
                      i \in DOMAIN hist_data}
        monthly_totals == [g \in groups |-> SumTp(MonthlyRows(hist_data, g[1], g[2]))]
        squares == [g \in groups |-> monthly_totals[g] * monthly_totals[g]]
        OfMonth(month) == {g \in groups : g[2] = month}
        \* groupby('year')['tp'].sum()
        years == {hist_data[i].time.year : i \in DOMAIN hist_data}
        annual_totals == [y \in years |->
                            SumTp(SelectSeq(hist_data, LAMBDA r : r.time.year = y))]
    IN  [monthly_mean |-> [month \in 1..12 |->
                             MeanOf(SumOver(OfMonth(month), monthly_totals),
                                    Cardinality(OfMonth(month)))],
         monthly_std  |-> StdOf(Cardinality(groups),
                                SumOver(groups, monthly_totals),
                                SumOver(groups, squares)),
         annual_mean  |-> MeanOf(SumOver(years, annual_totals), Cardinality(years))]

\* (variant: the zero guard requires both statistics to be zero)
calc_monthly_rsd_AndBug(target_date, precip_data, hist_stats) ==
    LET month == target_date.month
        actual_total == FromInt(SumTp(MonthlyRows(precip_data, target_date.year, month)))
    IN  IF month \notin DOMAIN hist_stats.monthly_mean
        THEN [raised |-> TRUE, value |-> NaN]
        ELSE LET hist_mean == hist_stats.monthly_mean[month]
                 hist_std == hist_stats.monthly_std
                 annual_mean == hist_stats.annual_mean
             IN  [raised |-> FALSE,
                  value |-> IF REq(hist_std, Zero) /\ REq(annual_mean, Zero)
                            THEN Zero
                            ELSE RMul(RDiv(RSub(actual_total, hist_mean), hist_std),
                                      RDiv(hist_mean, annual_mean))]

\* returns [raised, value]: raised is the KeyError of hist_stats['monthly_mean'][month]
calc_monthly_rsd(target_date, precip_data, hist_stats) ==
    LET month == target_date.month
        actual_total == FromInt(SumTp(MonthlyRows(precip_data, target_date.year, month)))
    IN  IF month \notin DOMAIN hist_stats.monthly_mean
        THEN [raised |-> TRUE, value |-> NaN]
        ELSE LET hist_mean == hist_stats.monthly_mean[month]
                 hist_std == hist_stats.monthly_std
                 annual_mean == hist_stats.annual_mean
             IN  [raised |-> FALSE,
                  value |-> IF REq(hist_std, Zero) \/ REq(annual_mean, Zero)
                            THEN Zero
                            ELSE RMul(RDiv(RSub(actual_total, hist_mean), hist_std),
                                      RDiv(hist_mean, annual_mean))]

RECURSIVE CumulativeLoop(_, _, _, _, _, _)
\* the for loop of calc_cumulative_rsd from iteration i with accumulator acc
CumulativeLoop(i, acc, target_date, precip_data, hist_stats, n_months) ==
    IF i > n_months THEN [raised |-> FALSE, value |-> acc]
    ELSE LET monthly_rsd == calc_monthly_rsd(DateOffsetMonths(target_date, i),
                                             precip_data, hist_stats)
         IN  IF monthly_rsd.raised THEN [raised |-> TRUE, value |-> NaN]
             ELSE CumulativeLoop(i + 1, RAdd(acc, monthly_rsd.value),
                                 target_date, precip_data, hist_stats, n_months)

calc_cumulative_rsd(target_date, precip_data, hist_stats, n_months) ==
    CumulativeLoop(1, Zero, target_date, precip_data, hist_stats, n_months)

RECURSIVE SumRat(_)
\* Python sum() of a list of floats, left to right from 0
SumRat(xs) ==
    Bind(xs, LAMBDA v : IF v = <<>> THEN Zero
                        ELSE RAdd(SumRat(SubSeq(v, 1, Len(v) - 1)), v[Len(v)]))

----------------------------------------------------------------------------
(* The files on disk the scripts read: survey ids, city lists, daily      *)
(* series and the precomputed table.  Survey ids are sequences of tokens. *)

KENYA == <<"Kenya_2014">>

IVORY == <<"Cote_d'Ivoire", "_2012">>

ZAMBIA == <<"Zambia_2007">>

\* survey_id.replace("Cote_d'Ivoire", "Cote_dIvoire")
SurveyClean(survey_id) ==
    [i \in DOMAIN survey_id |->
        IF survey_id[i] = "Cote_d'Ivoire" THEN "Cote_dIvoire" ELSE survey_id[i]]

Day(y, m, d, tp) == [time |-> Date(y, m, d), tp |-> tp]

\* monthly totals 30, 60, 90 inside the historical period
SERIES_A == << Day(1980, 12, 25, 30),
               Day(2020, 1, 5, 15), Day(2020, 1, 20, 2), Day(2020, 1, 21, 1),
               Day(2020, 1, 22, 42),
               Day(2020, 2, 3, 80), Day(2020, 2, 10, 10) >>

\* a single month of data
SERIES_B == << Day(2020, 2, 1, 5), Day(2020, 2, 2, 7) >>

\* two equal monthly totals
SERIES_E == << Day(2019, 1, 10, 4), Day(2019, 2, 11, 4) >>

\* monthly totals 0, 3, 6 inside the historical period, one day after it
SERIES_F == << Day(2018, 5, 1, 0), Day(2018, 6, 1, 3), Day(2018, 7, 1, 6),
               Day(2021, 1, 5, 9) >>

SERIES_G == << Day(2019, 12, 31, 3) >>

\* CITY_LIST_DIR / f'{survey_id}.csv' : DHSID -> city_id ("C" has no row,
\* ZAMBIA has no file)
CITY_LIST ==
    (KENYA :> ("A" :> 1 @@ "B" :> 2 @@ "D" :> 4 @@ "E" :> 5 @@ "F" :> 6))
    @@ (IVORY :> ("G" :> 7))

\* PRECIP_DIR / survey_clean / f'{city_id}.csv' (city 4 has no file)
PRECIP_FILES ==
    (<<SurveyClean(KENYA), 1>> :> SERIES_A) @@ (<<SurveyClean(KENYA), 2>> :> SERIES_B)
    @@ (<<SurveyClean(KENYA), 5>> :> SERIES_E) @@ (<<SurveyClean(KENYA), 6>> :> SERIES_F)
    @@ (<<SurveyClean(IVORY), 7>> :> SERIES_G)

StatsRow(p999, avg, std, all) ==
    [p999 |-> FromInt(p999), average |-> [m \in 1..12 |-> FromInt(avg)],
     month_std |-> FromInt(std), all_average |-> FromInt(all)]

\* rows of all_points_dhs_prep.csv ("E" and "F" have no row)
STATS_ROWS ==
    ("A" :> StatsRow(50, 10, 5, 120)) @@ ("B" :> StatsRow(5, 10, 0, 120))
    @@ ("D" :> StatsRow(9, 10, 5, 120)) @@ ("G" :> StatsRow(2, 10, 2, 0))

STATS_FULL == [exists |-> TRUE, avg_columns |-> 1..12, rows |-> STATS_ROWS]

\* the table without its '7_average' column
STATS_NOCOL == [exists |-> TRUE, avg_columns |-> (1..12) \ {7}, rows |-> STATS_ROWS]

\* no table on disk
STATS_ABSENT == [exists |-> FALSE, avg_columns |-> {}, rows |-> [x \in {} |-> 0]]

StatsFiles == {STATS_FULL, STATS_NOCOL, STATS_ABSENT}

Rec(dhsid, survey, date) ==
    [DHSID |-> dhsid, DHS_survey |-> survey, death_date_lag_0 |-> date]

Records ==
    { Rec("A", KENYA, Date(2020, 3, 15)), Rec("A", KENYA, Date(2020, 3, 31)),
      Rec("A", KENYA, Date(1981, 1, 10)), Rec("A", KENYA, Date(1980, 12, 31)),
      Rec("B", KENYA, Date(2020, 3, 15)), Rec("C", KENYA, Date(2020, 3, 15)),
      Rec("D", KENYA, Date(2020, 3, 15)), Rec("E", KENYA, Date(2019, 3, 5)),
      Rec("F", KENYA, Date(2018, 8, 15)), Rec("G", IVORY, Date(2020, 1, 31)),
      Rec("A", ZAMBIA, Date(2020, 3, 15)) }

----------------------------------------------------------------------------
(* Loaders *)

\* calculate_wet_days.py / calculate_rainfall_deviation.py : load_precip_data
\* raised: read_csv of a missing file, or .values[0] of an empty selection
load_precip_data(dhsid, survey_id) ==
    LET survey_clean == SurveyClean(survey_id)
    IN  IF survey_id \notin DOMAIN CITY_LIST THEN [raised |-> TRUE]
        ELSE IF dhsid \notin DOMAIN CITY_LIST[survey_id] THEN [raised |-> TRUE]
        ELSE LET city_id == CITY_LIST[survey_id][dhsid]
             IN  IF <<survey_clean, city_id>> \notin DOMAIN PRECIP_FILES
                 THEN [raised |-> TRUE]
                 ELSE [raised |-> FALSE, precip |-> PRECIP_FILES[<<survey_clean, city_id>>]]

\* calculate_extreme_precip.py : load_precip_data
load_precip_data_extreme(dhsid, survey_id, threshold_df) ==
    LET ld == load_precip_data(dhsid, survey_id)
    IN  IF ld.raised THEN [raised |-> TRUE]
        ELSE IF dhsid \notin DOMAIN threshold_df.rows THEN [raised |-> TRUE]
        ELSE LET wet == SelectSeq(ld.precip, LAMBDA r : r.tp > 0)
             IN  [raised |-> FALSE, precip |-> ld.precip,
                  threshold |-> threshold_df.rows[dhsid].p999,
                  avg_precip |-> MeanOf(SumTp(wet), Len(wet))]

\* returns [found, stats]; found = FALSE is the None of the code
load_precomputed_stats(dhsid, stats_file) ==
    IF ~stats_file.exists THEN [found |-> FALSE]
    ELSE IF dhsid \notin DOMAIN stats_file.rows THEN [found |-> FALSE]
    ELSE LET location_stats == stats_file.rows[dhsid]
         IN  [found |-> TRUE,
              stats |-> [monthly_mean |-> [month \in stats_file.avg_columns |->
                                              location_stats.average[month]],
                         monthly_std  |-> location_stats.month_std,
                         annual_mean  |-> location_stats.all_average]]

----------------------------------------------------------------------------
(* process_file: the body of the row loop, one definition per script.      *)
(* Each returns [raised, cols, loc]: the derived columns of the row and    *)
(* the locals of the iteration (series, statistics, target dates).         *)

TargetDates(base_date) ==
    [m \in 1..N_MONTHS |-> DateOffsetMonths(base_date, m)]

\* calculate_wet_days.py
RowWetDays(rec) ==
    Bind2(load_precip_data(rec.DHSID, rec.DHS_survey), TargetDates(rec.death_date_lag_0),
          LAMBDA ld, target_date :
            IF ld.raised THEN [raised |-> TRUE]
            ELSE [raised |-> FALSE,
                  cols |-> [wet_days |-> [m \in 1..N_MONTHS |->
                             calc_wet_days(target_date[m], ld.precip, WET_DAY_THRESHOLD)]],
                  loc |-> [done |-> TRUE, precip |-> ld.precip,
                           target_date |-> target_date]])

\* calculate_extreme_precip.py
RowExtreme(rec, threshold_df) ==
    Bind2(load_precip_data_extreme(rec.DHSID, rec.DHS_survey, threshold_df),
          TargetDates(rec.death_date_lag_0),
          LAMBDA ld, target_date :
            IF ld.raised THEN [raised |-> TRUE]
            ELSE Bind(ListOf([m \in 1..N_MONTHS |->
                                 calc_extreme_precip(target_date[m], ld.precip,
                                                     ld.threshold, ld.avg_precip)],
                             N_MONTHS),
                      LAMBDA r :
                        [raised |-> FALSE,
                         cols |-> [p999_days      |-> [m \in 1..N_MONTHS |-> r[m][1]],
                                   p999_excess    |-> [m \in 1..N_MONTHS |-> r[m][2]],
                                   p999_intensity |-> [m \in 1..N_MONTHS |-> r[m][3]]],
                         loc |-> [done |-> TRUE, precip |-> ld.precip,
                                  threshold |-> ld.threshold, avg |-> ld.avg_precip,
                                  target_date |-> target_date]]))

\* (variant: the slice of the cumulative sum stops one month short)
CumulativeColumns_ShortSlice(monthly_rsds) ==
    [m \in 1..N_MONTHS |-> SumRat(SubSeq(monthly_rsds, 1, m - 1))]

\* sum(monthly_rsds[:m]) for m = 1..N_MONTHS
CumulativeColumns(monthly_rsds) ==
    [m \in 1..N_MONTHS |-> SumRat(SubSeq(monthly_rsds, 1, m))]

\* the statistics of a record: the precomputed ones, otherwise computed from
\* the series
HistStatsFor(precip, pre) ==
    IF pre.found THEN pre.stats ELSE calculate_historical_stats(precip)

\* calculate_rainfall_deviation.py
RowRsd(rec, stats_file) ==
    Bind2(load_precip_data(rec.DHSID, rec.DHS_survey), TargetDates(rec.death_date_lag_0),
          LAMBDA ld, target_date :
            IF ld.raised THEN [raised |-> TRUE]
            ELSE Bind2(load_precomputed_stats(rec.DHSID, stats_file),
                       HistStatsFor(ld.precip, load_precomputed_stats(rec.DHSID, stats_file)),
                       LAMBDA pre, hist_stats :
                         Bind(ListOf([m \in 1..N_MONTHS |->
                                        calc_monthly_rsd(target_date[m], ld.precip,
                                                         hist_stats)],
                                     N_MONTHS),
                              LAMBDA rsd :
                                LET monthly_rsds == [m \in 1..N_MONTHS |-> rsd[m].value]
                                    \* the months stored by df.at before the KeyError
                                    before == {m \in 1..N_MONTHS :
                                                 \A k \in 1..m : ~rsd[k].raised}
                                IN  IF \E m \in 1..N_MONTHS : rsd[m].raised
                                    THEN [raised |-> TRUE,
                                          rsd_month |-> [m \in before |-> rsd[m].value]]
                                    ELSE [raised |-> FALSE,
                                          cols |-> [rsd_month      |-> monthly_rsds,
                                                    rsd_cumulative |->
                                                        CumulativeColumns(monthly_rsds)],
                                          loc |-> [done |-> TRUE, precip |-> ld.precip,
                                                   hist_stats |-> hist_stats,
                                                   precomputed |-> pre.found,
                                                   target_date |-> target_date]])))

RowBody(p, rec, stats_file) ==
    IF p = "wet" THEN RowWetDays(rec)
    ELSE IF p = "extreme" THEN RowExtreme(rec, stats_file)
    ELSE RowRsd(rec, stats_file)

\* the columns created before the row loop
InitColumns(p) ==
    IF p = "wet" THEN [wet_days |-> [m \in 1..N_MONTHS |-> 0]]
    ELSE IF p = "extreme"
    THEN [p999_days      |-> [m \in 1..N_MONTHS |-> 0],
          p999_excess    |-> [m \in 1..N_MONTHS |-> Zero],
          p999_intensity |-> [m \in 1..N_MONTHS |-> Zero]]
    ELSE [rsd_month      |-> [m \in 1..N_MONTHS |-> Zero],
          rsd_cumulative |-> [m \in 1..N_MONTHS |-> Zero]]

RECURSIVE RowSumInt_Short(_)
\* (variant: the first column is left out of the sum)
RowSumInt_Short(xs) ==
    IF Len(xs) <= 1 THEN 0
    ELSE xs[Len(xs)] + RowSumInt_Short(SubSeq(xs, 1, Len(xs) - 1))

RECURSIVE RowSumInt(_)
\* DataFrame.sum(axis=1) over integer-valued columns
RowSumInt(xs) == IF xs = <<>> THEN 0 ELSE Head(xs) + RowSumInt(Tail(xs))

RECURSIVE RowSumRat(_)
\* DataFrame.sum(axis=1) over float columns (NaN cells are skipped)
RowSumRat(xs) ==
    IF xs = <<>> THEN Zero
    ELSE IF IsNaN(Head(xs)) THEN RowSumRat(Tail(xs))
    ELSE RAdd(Head(xs), RowSumRat(Tail(xs)))

\* the aggregate columns computed after the row loop
AnnualColumns(p, cols) ==
    IF p = "wet" THEN [wet_days_annual |-> RowSumInt(cols.wet_days)]
    ELSE IF p = "extreme"
    THEN [p999_annual_days   |-> RowSumInt(cols.p999_days),
          p999_annual_excess |-> RowSumRat(cols.p999_excess)]
    ELSE LET rsd_annual == cols.rsd_cumulative[12]
         IN  [rsd_annual   |-> rsd_annual,
              rsd_positive |-> IF RGt(rsd_annual, Zero) THEN rsd_annual ELSE Zero,
              rsd_negative |-> IF RLt(rsd_annual, Zero) THEN rsd_annual ELSE Zero]

----------------------------------------------------------------------------
(* process_file as a sequence of steps on its locals                       *)
(*   [pc, idx, df, ret]: pc is "queued", "rows" or "returned"; idx is the  *)
(*   number of rows of df already processed; ret is the return value.      *)

NewCall == [pc |-> "queued", idx |-> 0, df |-> <<>>, ret |-> "pending"]

\* (variant: the year filter is strict)
FilterMinYear_Strict(table) ==
    SelectSeq(table, LAMBDA rec : rec.death_date_lag_0.year > MIN_YEAR)

\* df[df['death_date_lag_0'].dt.year >= MIN_YEAR].reset_index(drop=True)
FilterMinYear(table) ==
    SelectSeq(table, LAMBDA rec : rec.death_date_lag_0.year >= MIN_YEAR)

\* (variant: the exception is swallowed per row and the loop goes on)
ExceptionHandler_SkipRow(d) ==
    IF d.pc = "rows" THEN [d EXCEPT !.idx = @ + 1]
    ELSE [d EXCEPT !.pc = "returned", !.ret = "None"]

\* except Exception as e: print(...); return None
ExceptionHandler(d) == [d EXCEPT !.pc = "returned", !.ret = "None"]

\* from the start of process_file to the row loop
Prologue(p, table, stats_file) ==
    IF p = "extreme" /\ ~stats_file.exists
    THEN ExceptionHandler(NewCall)
    ELSE [pc |-> "rows", idx |-> 0, ret |-> "pending",
          df |-> LET kept == FilterMinYear(table)
                 IN  [i \in 1..Len(kept) |->
                        [rec |-> kept[i], cols |-> InitColumns(p),
                         loc |-> [done |-> FALSE]]]]

\* the row loop stops in the middle of an iteration: the cells stored before
\* the exception stay in df (only the RSD month loop calls a function that
\* can raise after a store)
StoredBeforeRaise(d, idx, out) ==
    IF "rsd_month" \in DOMAIN out
    THEN [d EXCEPT !.df[idx].cols.rsd_month =
                      [m \in 1..N_MONTHS |-> IF m \in DOMAIN out.rsd_month
                                              THEN out.rsd_month[m] ELSE @[m]]]
    ELSE d

\* one iteration of the row loop
RowStep(p, d, stats_file) ==
    Bind2(d.idx + 1, RowBody(p, d.df[d.idx + 1].rec, stats_file),
          LAMBDA idx, out :
            IF out.raised THEN ExceptionHandler(StoredBeforeRaise(d, idx, out))
            ELSE [d EXCEPT !.idx = idx,
                           !.df[idx].cols = out.cols,
                           !.df[idx].loc = out.loc])

\* the table handed to to_csv: input columns, monthly and aggregate columns
OutputTable(p, df) ==
    [i \in 1..Len(df) |->
        [rec |-> df[i].rec, cols |-> df[i].cols, agg |-> AnnualColumns(p, df[i].cols)]]

\* from the end of the row loop to return filename
Epilogue(d) == [d EXCEPT !.pc = "returned", !.ret = "filename"]

----------------------------------------------------------------------------
(* main and the worker pool *)

\* bounds of the model
MaxRows == 2

NumFiles == 3

PoolSize == 2

Pipelines == {"extreme", "rsd", "wet"}

Workers == 1..PoolSize

Files == DOMAIN inputDir

\* (variant: every collected result is counted)
Truthy_Any(r) == r # ""

\* truth value of a result of process_file: None is false, a file name is true
Truthy(r) == r # "None" /\ r # ""

\* sum(1 for r in results if r)
CountSuccess(res) == Cardinality({f \in DOMAIN res : Truthy(res[f])})

\* what a worker does with the locals of process_file after a step: a
\* returned call hands its value to pool.map and frees the worker
AfterStep(w, f, after) ==
    \E d \in {after} :
        /\ drv' = [drv EXCEPT ![f] = d]
        /\ IF d.pc = "returned"
           THEN /\ results' = [results EXCEPT ![f] = d.ret]
                /\ worker' = [worker EXCEPT ![w] = 0]
           ELSE /\ results' = results
                /\ worker' = [worker EXCEPT ![w] = f]

\* main: files = glob(...); pool.map(process_file, files)
MainStart ==
    /\ mainpc = "start"
    /\ mainpc' = "waiting"
    /\ taskq' = [i \in 1..Cardinality(Files) |-> i]
    /\ UNCHANGED <<pipeline, statsFile, inputDir, worker, drv, outputDir, results,
                   runs, success, call, ret>>

\* an idle worker takes the next file and runs process_file up to the row loop
TakeTask(w) ==
    /\ mainpc = "waiting"
    /\ worker[w] = 0
    /\ taskq # <<>>
    /\ LET f == Head(taskq)
       IN  /\ taskq' = Tail(taskq)
           /\ runs' = [runs EXCEPT ![f] = @ + 1]
           /\ AfterStep(w, f, Prologue(pipeline, inputDir[f], statsFile))
    /\ UNCHANGED <<pipeline, statsFile, inputDir, mainpc, outputDir, success, call, ret>>

\* the worker processes the next row of its file
ProcessRow(w) ==
    /\ worker[w] # 0
    /\ LET f == worker[w]
       IN  /\ drv[f].pc = "rows"
           /\ drv[f].idx < Len(drv[f].df)
           /\ AfterStep(w, f, RowStep(pipeline, drv[f], statsFile))
    /\ UNCHANGED <<pipeline, statsFile, inputDir, mainpc, taskq, outputDir, runs,
                   success, call, ret>>

\* after the last row: aggregate columns, to_csv, return filename
Finish(w) ==
    /\ worker[w] # 0
    /\ LET f == worker[w]
       IN  /\ drv[f].pc = "rows"
           /\ drv[f].idx >= Len(drv[f].df)
           /\ outputDir' = [outputDir EXCEPT ![f] =
                              [written |-> TRUE, rows |-> OutputTable(pipeline, drv[f].df)]]
           /\ AfterStep(w, f, Epilogue(drv[f]))
    /\ UNCHANGED <<pipeline, statsFile, inputDir, mainpc, taskq, runs, success, call, ret>>

\* pool.map returns once every file has a result; main counts the successes
MainCollect ==
    /\ mainpc = "waiting"
    /\ taskq = <<>>
    /\ \A f \in Files : results[f] # "pending"
    /\ success' = CountSuccess(results)
    /\ mainpc' = "done"
    /\ UNCHANGED <<pipeline, statsFile, inputDir, taskq, worker, drv, outputDir,
                   results, runs, call, ret>>

NoCall == [fn |-> "off"]

\* the state before main runs on a directory of input files
InitRun(fileIds, tables, statsFiles) ==
    /\ pipeline \in Pipelines
    /\ statsFile \in statsFiles
    /\ inputDir \in [fileIds -> tables]
    /\ mainpc = "start"
    /\ taskq = <<>>
    /\ worker = [w \in Workers |-> 0]
    /\ drv = [f \in fileIds |-> NewCall]
    /\ outputDir = [f \in fileIds |-> [written |-> FALSE, rows |-> <<>>]]
    /\ results = [f \in fileIds |-> "pending"]
    /\ runs = [f \in fileIds |-> 0]
    /\ success = -1
    /\ call = NoCall
    /\ ret = NoCall

\* input tables of at most n rows
Tables(n) == UNION {[1..k -> Records] : k \in 0..n}

\* one input file, any table
Init == InitRun({1}, Tables(MaxRows), StatsFiles)

Next ==
    \/ MainStart
    \/ \E w \in Workers : TakeTask(w)
    \/ \E w \in Workers : ProcessRow(w)
    \/ \E w \in Workers : Finish(w)
    \/ MainCollect

Spec == Init /\ [][Next]_vars

\* tables for the runs over several files: one that succeeds, one whose
\* second row has no city-list entry, one whose only row is before MIN_YEAR
PoolTables ==
    { << Rec("A", KENYA, Date(2020, 3, 15)) >>,
      << Rec("B", KENYA, Date(2020, 3, 15)), Rec("C", KENYA, Date(2020, 3, 15)) >>,
      << Rec("A", KENYA, Date(1980, 12, 31)) >> }

PoolInit == InitRun(1..NumFiles, PoolTables, {STATS_FULL})

\* the processes are scheduled: the run does not stop while main or a worker
\* has a step to take
PoolSpec == PoolInit /\ [][Next]_vars /\ WF_vars(Next)

----------------------------------------------------------------------------
(* Direct calls of the core functions on arguments drawn from small sets *)

FnSeries ==
    { << Day(2020, 1, 5, 15), Day(2020, 1, 20, 2) >>,
      << Day(2020, 1, 3, 80), Day(2020, 1, 10, 10), Day(2019, 1, 3, 60),
         Day(2020, 2, 3, 120) >>,
      << Day(2020, 1, 5, 1), Day(2020, 1, 6, 50), Day(2019, 12, 7, 51) >> }

FnDates == { Date(2020, 1, 15), Date(2020, 1, 31), Date(2020, 3, 31), Date(2019, 12, 1) }

FnThresholds == { FromInt(1), FromInt(50), Rat(1, 2), NaN }

FnAvgs == { FromInt(20), Rat(7, 2), Zero, NaN }

FnMonths == {1, 2, 12}

FnStats ==
    { [monthly_mean |-> [m \in 1..12 |-> FromInt(10)],
       monthly_std |-> FromInt(5), annual_mean |-> FromInt(120)],
      [monthly_mean |-> [m \in 1..12 |-> FromInt(10)],
       monthly_std |-> Zero, annual_mean |-> FromInt(120)],
      [monthly_mean |-> [m \in 1..12 |-> FromInt(10)],
       monthly_std |-> FromInt(5), annual_mean |-> Zero],
      [monthly_mean |-> [m \in 1..12 |-> IF m = 12 THEN NaN ELSE FromInt(m)],
       monthly_std |-> NaN, annual_mean |-> FromInt(78)] }

FnInit ==
    /\ pipeline = "wet"
    /\ statsFile = STATS_ABSENT
    /\ inputDir = [f \in {} |-> <<>>]
    /\ mainpc = "off"
    /\ taskq = <<>>
    /\ worker = [w \in Workers |-> 0]
    /\ drv = [f \in {} |-> NewCall]
    /\ outputDir = [f \in {} |-> <<>>]
    /\ results = [f \in {} |-> "pending"]
    /\ runs = [f \in {} |-> 0]
    /\ success = -1
    /\ call \in [target_date : FnDates, precip_data : FnSeries, threshold : FnThresholds,
                 avg_precip : FnAvgs, hist_stats : FnStats, n_months : FnMonths]
    /\ ret = [fn |-> "none"]

Returns(fn, value) ==
    /\ ret.fn = "none"
    /\ ret' = [fn |-> fn, value |-> value]
    /\ UNCHANGED <<pipeline, statsFile, inputDir, mainpc, taskq, worker, drv, outputDir,
                   results, runs, success, call>>

CallExtremePrecip ==
    Returns("calc_extreme_precip",
            calc_extreme_precip(call.target_date, call.precip_data, call.threshold,
                                call.avg_precip))

CallWetDays ==
    Returns("calc_wet_days",
            calc_wet_days(call.target_date, call.precip_data, call.threshold))

\* calc_wet_days(target_date, precip_data) with the default threshold
CallWetDaysDefault ==
    Returns("calc_wet_days_default",
            calc_wet_days(call.target_date, call.precip_data, WET_DAY_THRESHOLD))

CallMonthlyRsd ==
    Returns("calc_monthly_rsd",
            calc_monthly_rsd(call.target_date, call.precip_data, call.hist_stats))

CallCumulativeRsd ==
    Returns("calc_cumulative_rsd",
            calc_cumulative_rsd(call.target_date, call.precip_data, call.hist_stats,
                                call.n_months))

CallHistoricalStats ==
    Returns("calculate_historical_stats", calculate_historical_stats(call.precip_data))

FnNext ==
    \/ CallExtremePrecip
    \/ CallWetDays
    \/ CallWetDaysDefault
    \/ CallMonthlyRsd
    \/ CallCumulativeRsd
    \/ CallHistoricalStats

FnSpec == FnInit /\ [][FnNext]_vars

----------------------------------------------------------------------------
(* Properties *)

\* rows of file f whose loop iteration has completed
ProcessedRows(f) == {i \in DOMAIN drv[f].df : drv[f].df[i].loc.done}

RECURSIVE MonthsBack(_, _)
\* the (year, month) reached by stepping m calendar months back, one at a time
MonthsBack(ym, m) ==
    IF m = 0 THEN ym
    ELSE MonthsBack(IF ym[2] = 1 THEN <<ym[1] - 1, 12>> ELSE <<ym[1], ym[2] - 1>>, m - 1)

\* the columns of offset m of a processed row are the aggregator's value for
\* the month ym
ColumnsAreOfMonth(row, m, ym) ==
    LET first == Date(ym[1], ym[2], 1)
    IN  IF pipeline = "wet"
        THEN row.cols.wet_days[m] = calc_wet_days(first, row.loc.precip, FromInt(1))
        ELSE IF pipeline = "extreme"
        THEN <<row.cols.p999_days[m], row.cols.p999_excess[m], row.cols.p999_intensity[m]>>
                = calc_extreme_precip(first, row.loc.precip, row.loc.threshold, row.loc.avg)
        ELSE row.cols.rsd_month[m]
                = calc_monthly_rsd(first, row.loc.precip, row.loc.hist_stats).value

\* C1: in all three pipelines, for every record and every lookback offset m
\* in 1..12, the target date and the derived columns of offset m are those of
\* the calendar month exactly m months before the month of the reference
\* date, whatever the day of month, the month lengths and the year boundaries.
C1_TargetMonth ==
    \A f \in Files : \A i \in ProcessedRows(f) : \A m \in 1..12 :
        LET row == drv[f].df[i]
            base_date == row.rec.death_date_lag_0
            ym == MonthsBack(<<base_date.year, base_date.month>>, m)
            t == row.loc.target_date[m]
        IN  /\ <<t.year, t.month>> = ym
            /\ ym[1] * 12 + ym[2] = base_date.year * 12 + base_date.month - m
            /\ ColumnsAreOfMonth(row, m, ym)

\* a record of 2020-03-15 (February 2020 for m = 1, March 2019 for m = 12) and
\* a record of 2020-03-31 (clipped to 2020-02-29 for m = 1) have been processed
C1_Witness ==
    \E f \in Files : \E i, j \in ProcessedRows(f) :
        /\ drv[f].df[i].rec.death_date_lag_0 = Date(2020, 3, 15)
        /\ drv[f].df[i].loc.target_date[1] = Date(2020, 2, 15)
        /\ drv[f].df[i].loc.target_date[12] = Date(2019, 3, 15)
        /\ drv[f].df[j].rec.death_date_lag_0 = Date(2020, 3, 31)
        /\ drv[f].df[j].loc.target_date[1] = Date(2020, 2, 29)
        /\ drv[f].df[j].loc.target_date[3] = Date(2019, 12, 31)

\* indexes of the input rows of file f whose reference year is >= 1981
KeptRows(f) == {i \in DOMAIN inputDir[f] : inputDir[f][i].death_date_lag_0.year >= 1981}

\* C2: the rows of a written output table are exactly the input rows whose
\* reference-date year is >= 1981, in input order.
C2_OutputRows ==
    \A f \in Files :
        outputDir[f].written =>
            /\ Len(outputDir[f].rows) = Cardinality(KeptRows(f))
            /\ \A i \in KeptRows(f) :
                  outputDir[f].rows[Cardinality({k \in KeptRows(f) : k <= i})].rec
                     = inputDir[f][i]

\* a table with a 1980 row before a 1981 row has been written with one row
C2_Witness ==
    \E f \in Files :
        /\ outputDir[f].written
        /\ Len(inputDir[f]) = 2
        /\ inputDir[f][1].death_date_lag_0.year = 1980
        /\ inputDir[f][2].death_date_lag_0.year = 1981
        /\ Len(outputDir[f].rows) = 1
        /\ outputDir[f].rows[1].rec = inputDir[f][2]

\* indexes of the days of the call's series in the target month above t
DaysAbove(t) ==
    {i \in DOMAIN call.precip_data :
        /\ call.precip_data[i].time.year = call.target_date.year
        /\ call.precip_data[i].time.month = call.target_date.month
        /\ ~IsNaN(t)
        /\ call.precip_data[i].tp * t[2] > t[1]}

TpOf == [i \in DOMAIN call.precip_data |-> call.precip_data[i].tp]

\* C3: calc_extreme_precip returns (n, excess, intensity): n the number of
\* days of the target month strictly above the threshold, excess their sum
\* minus threshold * n, intensity = excess / avg_precip, and 0 when avg_precip
\* is 0 or absent; with no such day the result is exactly (0, 0.0, 0.0).
C3_ExtremePrecip ==
    ret.fn = "calc_extreme_precip" =>
        LET days == DaysAbove(call.threshold)
            n == Cardinality(days)
            excess == RSub(FromInt(SumOver(days, TpOf)), RMul(call.threshold, FromInt(n)))
        IN  IF n = 0 THEN ret.value = <<0, Zero, Zero>>
            ELSE /\ ret.value[1] = n
                 /\ ret.value[2] = excess
                 /\ IF IsNaN(call.avg_precip) \/ call.avg_precip = Zero
                    THEN ret.value[3] = Zero
                    ELSE RMul(ret.value[3], call.avg_precip) = excess

\* threshold 50, days of 80 and 10 in the month, avg_precip 20: (1, 30.0, 1.5)
C3_Witness ==
    /\ ret.fn = "calc_extreme_precip"
    /\ call.threshold = FromInt(50)
    /\ call.avg_precip = FromInt(20)
    /\ \E i, j \in DOMAIN call.precip_data :
          /\ call.precip_data[i] = Day(2020, 1, 3, 80)
          /\ call.precip_data[j] = Day(2020, 1, 10, 10)
    /\ <<call.target_date.year, call.target_date.month>> = <<2020, 1>>
    /\ ret.value = <<1, FromInt(30), Rat(3, 2)>>

\* C4: a record whose statistics have pooled std = 0 or annual mean = 0 has
\* every monthly RSD, every cumulative RSD and the annual RSD equal to 0.0.
C4_DegenerateStatsGiveZero ==
    pipeline = "rsd" =>
        \A f \in Files : outputDir[f].written =>
            \A i \in DOMAIN outputDir[f].rows :
                LET hist_stats == drv[f].df[i].loc.hist_stats
                    out == outputDir[f].rows[i]
                IN  (hist_stats.monthly_std = Zero \/ hist_stats.annual_mean = Zero) =>
                        /\ \A m \in 1..12 : out.cols.rsd_month[m] = Zero
                        /\ \A m \in 1..12 : out.cols.rsd_cumulative[m] = Zero
                        /\ out.agg.rsd_annual = Zero

\* a written table with a record whose precomputed annual mean is 0 (std 2)
\* and a record whose std computed from the series is 0 (annual mean 8)
C4_Witness ==
    /\ pipeline = "rsd"
    /\ \E f \in Files :
          /\ outputDir[f].written
          /\ \E i, j \in DOMAIN outputDir[f].rows :
                /\ drv[f].df[i].loc.precomputed
                /\ drv[f].df[i].loc.hist_stats.annual_mean = Zero
                /\ drv[f].df[i].loc.hist_stats.monthly_std = FromInt(2)
                /\ ~drv[f].df[j].loc.precomputed
                /\ drv[f].df[j].loc.hist_stats.monthly_std = Zero
                /\ drv[f].df[j].loc.hist_stats.annual_mean = FromInt(8)
                /\ outputDir[f].rows[j].agg.rsd_annual = Zero

\* C5: the cumulative RSD column at offset k is the running sum of the monthly
\* RSD columns 1..k of the record and equals calc_cumulative_rsd on the same
\* inputs; the annual RSD is the cumulative value at k = 12.
C5_CumulativeRsd ==
    pipeline = "rsd" =>
        \A f \in Files : outputDir[f].written =>
            \A i \in DOMAIN outputDir[f].rows :
                LET out == outputDir[f].rows[i]
                    loc == drv[f].df[i].loc
                IN  /\ out.cols.rsd_cumulative[1] = out.cols.rsd_month[1]
                    /\ \A k \in 2..12 :
                          out.cols.rsd_cumulative[k]
                             = RAdd(out.cols.rsd_cumulative[k - 1], out.cols.rsd_month[k])
                    /\ \A k \in 1..12 :
                          LET c == calc_cumulative_rsd(out.rec.death_date_lag_0,
                                                       loc.precip, loc.hist_stats, k)
                          IN  ~c.raised /\ c.value = out.cols.rsd_cumulative[k]
                    /\ out.agg.rsd_annual = out.cols.rsd_cumulative[12]

\* location "A" at 2020-03-15 with the precomputed statistics: 4/3 for
\* February, 5/6 for January, 13/6 cumulated over two months
C5_Witness ==
    /\ pipeline = "rsd"
    /\ \E f \in Files :
          /\ outputDir[f].written
          /\ \E i \in DOMAIN outputDir[f].rows :
                /\ outputDir[f].rows[i].cols.rsd_month[1] = Rat(4, 3)
                /\ outputDir[f].rows[i].cols.rsd_month[2] = Rat(5, 6)
                /\ outputDir[f].rows[i].cols.rsd_cumulative[2] = Rat(13, 6)
                /\ outputDir[f].rows[i].agg.rsd_annual = Rat(1, 2)

RECURSIVE RunningSum(_, _)
\* f[1] + ... + f[k] over rationals
RunningSum(f, k) == IF k = 0 THEN Zero ELSE RAdd(RunningSum(f, k - 1), f[k])

\* C6: in every output record each annual aggregate equals the sum of its 12
\* monthly columns: wet_days_annual, p999_annual_days and p999_annual_excess.
C6_AnnualIsSumOfMonths ==
    \A f \in Files : outputDir[f].written =>
        \A i \in DOMAIN outputDir[f].rows :
            LET out == outputDir[f].rows[i]
            IN  /\ pipeline = "wet" =>
                      out.agg.wet_days_annual = SumOver(1..12, out.cols.wet_days)
                /\ pipeline = "extreme" =>
                      /\ out.agg.p999_annual_days = SumOver(1..12, out.cols.p999_days)
                      /\ out.agg.p999_annual_excess = RunningSum(out.cols.p999_excess, 12)

\* a written wet-days record with 2 wet days one month back, 3 two months
\* back and 5 over the year
C6_Witness ==
    /\ pipeline = "wet"
    /\ \E f \in Files :
          /\ outputDir[f].written
          /\ \E i \in DOMAIN outputDir[f].rows :
                /\ outputDir[f].rows[i].cols.wet_days[1] = 2
                /\ outputDir[f].rows[i].cols.wet_days[2] = 3
                /\ outputDir[f].rows[i].agg.wet_days_annual = 5

\* C7: calc_wet_days returns the number of days of the target (year, month)
\* whose precipitation is strictly greater than the threshold t, a parameter
\* whose default is 1.0.
C7_WetDays ==
    /\ ret.fn = "calc_wet_days" =>
          ret.value = Cardinality(DaysAbove(call.threshold))
    /\ ret.fn = "calc_wet_days_default" =>
          ret.value = Cardinality(DaysAbove(<<1, 1>>))

\* series [(2020-01-05, 15), (2020-01-20, 2)], default threshold, January
\* 2020: 2 wet days
C7_Witness ==
    /\ ret.fn = "calc_wet_days_default"
    /\ call.precip_data = << Day(2020, 1, 5, 15), Day(2020, 1, 20, 2) >>
    /\ <<call.target_date.year, call.target_date.month>> = <<2020, 1>>
    /\ ret.value = 2

\* files whose process_file call returned the file name / returned None
Succeeded == {f \in Files : drv[f].pc = "returned" /\ drv[f].ret = "filename"}

Failed == {f \in Files : drv[f].pc = "returned" /\ drv[f].ret = "None"}

\* when main is done: every file was processed exactly once, to its own
\* success or failure, and the reported count is the number of successes
C8_Final ==
    mainpc = "done" =>
        /\ \A f \in Files : runs[f] = 1 /\ f \in Succeeded \cup Failed
        /\ \A f \in Files : results[f] = drv[f].ret
        /\ success = Cardinality(Succeeded)

\* C8: for any files and any interleaving over the worker pool, an exception
\* in one file's driver becomes that file's failure result, every other file
\* is still processed to its own result, each file is processed exactly once,
\* the run always finishes, and the final success count is the number of
\* files whose driver returned success.
C8_PoolRun ==
    /\ [](\A f \in Files : runs[f] <= 1)
    /\ [](C8_Final)
    /\ <>(mainpc = "done")

\* a finished run of three files with one failure and two successes
C8_Witness ==
    /\ mainpc = "done"
    /\ Cardinality(Files) = 3
    /\ Cardinality(Failed) = 1
    /\ Cardinality(Succeeded) = 2
    /\ success = 2

\* C9: if processing a row of a file fails, the driver returns failure and
\* writes no output table, not even for the rows processed before the bad
\* row; an output table is written only after every row has been processed,
\* and a file reports success only if its output was written.
C9_NoPartialOutput ==
    \A f \in Files :
        /\ f \in Failed => ~outputDir[f].written
        /\ outputDir[f].written =>
              /\ drv[f].idx = Len(drv[f].df)
              /\ ProcessedRows(f) = DOMAIN drv[f].df
        /\ (drv[f].ret = "filename" \/ results[f] = "filename") => outputDir[f].written
        /\ (/\ drv[f].pc = "returned"
            /\ \E i \in KeptRows(f) : RowBody(pipeline, inputDir[f][i], statsFile).raised)
              => f \in Failed /\ results[f] = "None" /\ ~outputDir[f].written

\* a file has failed on its second row, after its first row was processed,
\* and nothing was written
C9_Witness ==
    \E f \in Files :
        /\ f \in Failed
        /\ results[f] = "None"
        /\ drv[f].idx = 1
        /\ Len(drv[f].df) = 2
        /\ ProcessedRows(f) = {1}
        /\ ~outputDir[f].written

\* C10: in every written output row no monthly RSD, cumulative RSD or
\* extreme-intensity value is undefined, also when a reference statistic is
\* absent rather than zero.
C10_NoUndefinedMetric ==
    \A f \in Files : outputDir[f].written =>
        \A i \in DOMAIN outputDir[f].rows : \A m \in 1..12 :
            LET cols == outputDir[f].rows[i].cols
            IN  /\ pipeline = "rsd" =>
                      ~IsNaN(cols.rsd_month[m]) /\ ~IsNaN(cols.rsd_cumulative[m])
                /\ pipeline = "extreme" => ~IsNaN(cols.p999_intensity[m])

\* the precomputed table has a row for the location of the record
HasStatsRow(rec) == statsFile.exists /\ rec.DHSID \in DOMAIN statsFile.rows

\* the row loop stopped at a record: the call returned None before its last row
StoppedAt(f) ==
    IF drv[f].pc = "returned" /\ drv[f].ret = "None" /\ drv[f].idx < Len(drv[f].df)
    THEN {drv[f].idx + 1} ELSE {}

\* C11: every RSD record whose daily series loads is processed, with the
\* precomputed statistics when the table has a row for its location and with
\* the statistics computed from the series otherwise, and in both cases with
\* a mean for each calendar month 1..12, a pooled std and an annual mean.
C11_StatsSource ==
    pipeline = "rsd" => \A f \in Files :
        /\ \A i \in ProcessedRows(f) :
              LET rec == drv[f].df[i].rec
                  loc == drv[f].df[i].loc
              IN  /\ loc.precomputed <=> HasStatsRow(rec)
                  /\ HasStatsRow(rec) =>
                        /\ \A m \in DOMAIN loc.hist_stats.monthly_mean :
                              loc.hist_stats.monthly_mean[m]
                                  = statsFile.rows[rec.DHSID].average[m]
                        /\ loc.hist_stats.monthly_std = statsFile.rows[rec.DHSID].month_std
                        /\ loc.hist_stats.annual_mean
                              = statsFile.rows[rec.DHSID].all_average
                  /\ ~HasStatsRow(rec) =>
                        loc.hist_stats = calculate_historical_stats(loc.precip)
                  /\ DOMAIN loc.hist_stats.monthly_mean = 1..12
                  /\ DOMAIN loc.hist_stats
                        = {"monthly_mean", "monthly_std", "annual_mean"}
        /\ \A i \in StoppedAt(f) :
              load_precip_data(drv[f].df[i].rec.DHSID, drv[f].df[i].rec.DHS_survey).raised

====
